---- MODULE Spec2Model ----
(***************************************************************************)
(* Model of thunder/images/images.py: the Images collection (a stack of    *)
(* images or volumes along axis 0) over a local ndarray or a distributed   *)
(* ("spark") bolt array.                                                   *)
(*                                                                         *)
(* An array is a record [kind, shape, data]: kind is "ndarray" or "bolt",  *)
(* shape the tuple of axis sizes and data the values in row-major order.   *)
(* Pixel values are integers; where the numerical library would produce a  *)
(* real quotient the model truncates it toward zero (integer dtype).       *)
(***************************************************************************)
EXTENDS Integers, Sequences, FiniteSets, TLC

VARIABLES heap, coll, res, last, err, calls, declared, warned, orig,
          squeezed, nprng, steps, prevSample, lc

vars == <<heap, coll, res, last, err, calls, declared, warned, orig,
          squeezed, nprng, steps, prevSample, lc>>

---------------------------------------------------------------------------
(* Bounds of the model *)

\* largest size of one image axis in an initial collection
MaxDim == 2
\* largest number of image axes in an initial collection
MaxNDims == 3
\* largest number of images in an initial collection
MaxCount == 2
\* largest nsamples passed to sample (the smallest is 0, an invalid call)
MaxSamples == 3
\* largest explicit seed passed to sample
MaxSeed == 0
\* largest stride passed to subsample (the smallest is 0, an invalid call)
MaxFactor == 3
\* largest filter window passed to uniform_filter / median_filter
MaxFilterSize == 2
\* largest neighborhood passed to localcorr
MaxNeighborhood == 1
\* number of states of the process-wide numpy generator
RngMod == 2
\* how many times a result may become the next receiver, or storage that
\* the receiver uses be written to
MaxSteps == 1

---------------------------------------------------------------------------
(* Integer and tuple helpers *)

\* C-style cast of the quotient a / b to an integer
TruncDiv(a, b) == IF a >= 0 THEN a \div b ELSE -((-a) \div b)

RECURSIVE Prod(_)
Prod(s) == IF s = <<>> THEN 1 ELSE Head(s) * Prod(Tail(s))

RECURSIVE SumSeq(_)
SumSeq(s) == IF s = <<>> THEN 0 ELSE Head(s) + SumSeq(Tail(s))

RECURSIVE MaxSeq(_)
MaxSeq(s) ==
    IF Len(s) = 1 THEN s[1]
    ELSE LET m == MaxSeq(Tail(s)) IN IF s[1] >= m THEN s[1] ELSE m

RECURSIVE MinSeq(_)
MinSeq(s) ==
    IF Len(s) = 1 THEN s[1]
    ELSE LET m == MinSeq(Tail(s)) IN IF s[1] <= m THEN s[1] ELSE m

RECURSIVE Cat(_)
Cat(ss) == IF ss = <<>> THEN <<>> ELSE Head(ss) \o Cat(Tail(ss))

\* largest r with r * r <= n
Isqrt(n) == CHOOSE r \in 0..n : r * r <= n /\ (r + 1) * (r + 1) > n

\* s without its k-th entry (python: del s[k-1])
DelAt(s, k) == SubSeq(s, 1, k - 1) \o SubSeq(s, k + 1, Len(s))

\* all tuples of length n over S
RECURSIVE Tuples(_, _)
Tuples(n, S) ==
    IF n = 0 THEN {<<>>}
    ELSE {<<x>> \o t : x \in S, t \in Tuples(n - 1, S)}

---------------------------------------------------------------------------
(* n-dimensional arrays in row-major order; indices are 0-based tuples *)

RECURSIVE Unflat(_, _)
Unflat(off, shape) ==
    IF shape = <<>> THEN <<>>
    ELSE LET rest == Prod(Tail(shape))
         IN  <<off \div rest>> \o Unflat(off % rest, Tail(shape))

RECURSIVE Flat(_, _)
Flat(idx, shape) ==
    IF shape = <<>> THEN 0
    ELSE Head(idx) * Prod(Tail(shape)) + Flat(Tail(idx), Tail(shape))

\* one element (image): [shape, data]
At(e, idx) == e.data[Flat(idx, e.shape) + 1]

\* the indices of an array of the given shape
Indices(shape) == {Unflat(k - 1, shape) : k \in 1..Prod(shape)}

\* the array of the given shape holding f[idx] at every index idx
Build(shape, f) ==
    [shape |-> shape,
     data  |-> [k \in 1..Prod(shape) |-> f[Unflat(k - 1, shape)]]]

Nil == [kind |-> "none", shape |-> <<>>, data |-> <<>>]

\* the images of a stacked array, in index order
Elems(arr) ==
    LET P == Prod(Tail(arr.shape))
    IN  [i \in 1..Head(arr.shape) |->
            [shape |-> Tail(arr.shape),
             data  |-> SubSeq(arr.data, (i - 1) * P + 1, i * P)]]

\* asarray(list of elements): stack along a new leading axis
Stack(kind, elems, edims) ==
    [kind  |-> kind,
     shape |-> <<Len(elems)>> \o edims,
     data  |-> Cat([i \in 1..Len(elems) |-> elems[i].data])]

\* numpy.concatenate((a, b), axis=0) / bolt concatenate
Concatenate(a, b) ==
    [kind  |-> a.kind,
     shape |-> <<Head(a.shape) + Head(b.shape)>> \o Tail(a.shape),
     data  |-> a.data \o b.data]

\* move axis 0 to the end: values.transpose((1..n) + (0,)) / swap((0,), (0..n-1))
Transpose(arr) ==
    LET N == Head(arr.shape)
        P == Prod(Tail(arr.shape))
    IN  [kind  |-> arr.kind,
         shape |-> Tail(arr.shape) \o <<N>>,
         data  |-> [k \in 1..(N * P) |->
                       arr.data[((k - 1) % N) * P + ((k - 1) \div N) + 1]]]

---------------------------------------------------------------------------
(* The numerical library, per element *)

RECURSIVE SelectAxes(_, _, _)
SelectAxes(shape, keep, k) ==
    IF k > Len(shape) THEN <<>>
    ELSE (IF k \in keep THEN <<shape[k]>> ELSE <<>>)
         \o SelectAxes(shape, keep, k + 1)

\* ndarray.squeeze(axis): axis None drops every size-1 axis, a tuple of
\* (0-based) axes drops exactly those; the values keep their order
NpSqueeze(e, axis) ==
    LET keep == {k \in 1..Len(e.shape) :
                    IF axis.none THEN e.shape[k] # 1 ELSE (k - 1) \notin axis.axes}
    IN  [shape |-> SelectAxes(e.shape, keep, 1), data |-> e.data]

InsertAt(s, k, v) == SubSeq(s, 1, k - 1) \o <<v>> \o SubSeq(s, k, Len(s))

\* the values along (0-based) axis at the position idx of the other axes
Along(e, axis, idx) ==
    [k \in 1..e.shape[axis + 1] |-> At(e, InsertAt(idx, axis + 1, k - 1))]

\* numpy.amax(x, axis) and numpy.amin(x, axis)
amax(e, axis) ==
    Build(DelAt(e.shape, axis + 1),
          [idx \in Indices(DelAt(e.shape, axis + 1)) |-> MaxSeq(Along(e, axis, idx))])

amin(e, axis) ==
    Build(DelAt(e.shape, axis + 1),
          [idx \in Indices(DelAt(e.shape, axis + 1)) |-> MinSeq(Along(e, axis, idx))])

\* the number of indices slice(0, d, f) selects: 0, f, 2f, ... below d
SliceLen(d, f) == Cardinality({k \in 0..(d - 1) : k % f = 0})

\* v[slices] with slices[i] = slice(0, dims[i], factor[i])
Strided(e, factor) ==
    LET newshape == [i \in 1..Len(e.shape) |-> SliceLen(e.shape[i], factor[i])]
    IN  Build(newshape,
              [idx \in Indices(newshape) |->
                  At(e, [i \in 1..Len(e.shape) |-> idx[i] * factor[i]])])

\* boundary mode 'reflect' of scipy.ndimage: (d c b a | a b c d | d c b a)
RECURSIVE Reflect(_, _)
Reflect(q, d) ==
    IF q < 0 THEN Reflect(-q - 1, d)
    ELSE IF q >= d THEN Reflect(2 * d - 1 - q, d)
    ELSE q

\* the window of size s centred (origin 0) on position q of an axis of size d
Window(q, s, d) == [k \in 1..s |-> Reflect(q - (s \div 2) + (k - 1), d)]

\* scipy uniform_filter1d along one (1-based) axis
Uniform1D(e, ax, s) ==
    Build(e.shape,
          [idx \in Indices(e.shape) |->
              LET w == Window(idx[ax], s, e.shape[ax])
              IN  TruncDiv(SumSeq([k \in 1..s |-> At(e, [idx EXCEPT ![ax] = w[k]])]), s)])

\* scipy.ndimage.uniform_filter(x, size): one 1-D pass per axis whose size
\* exceeds 1, each on the output of the one before
RECURSIVE UniformFrom(_, _, _)
UniformFrom(e, sizes, ax) ==
    IF ax > Len(e.shape) THEN e
    ELSE UniformFrom(IF sizes[ax] > 1 THEN Uniform1D(e, ax, sizes[ax]) ELSE e,
                     sizes, ax + 1)

ndimage_uniform_filter(e, sizes) == UniformFrom(e, sizes, 1)

\* the value of rank Len(vals) \div 2 among vals (scipy's median rank)
RankMedian(vals) ==
    LET r == Len(vals) \div 2
        D == DOMAIN vals
    IN  vals[CHOOSE k \in D :
                 /\ Cardinality({j \in D : vals[j] < vals[k]}) <= r
                 /\ r < Cardinality({j \in D : vals[j] <= vals[k]})]

\* scipy.ndimage.median_filter(x, size): box footprint, reflect boundary
ndimage_median_filter(e, sizes) ==
    Build(e.shape,
          [idx \in Indices(e.shape) |->
              RankMedian([k \in 1..Prod(sizes) |->
                  LET o == Unflat(k - 1, sizes)
                  IN  At(e, [a \in 1..Len(e.shape) |->
                                Reflect(idx[a] - (sizes[a] \div 2) + o[a],
                                        e.shape[a])])])])

\* gaussian weights exp(-x^2 / (2 sigma^2)) for sigma = 1, x = -4..4, in
\* thousandths (the kernel is truncated at 4 sigma)
GaussWeights == <<0, 11, 135, 607, 1000, 607, 135, 11, 0>>

Gauss1D(e, ax) ==
    Build(e.shape,
          [idx \in Indices(e.shape) |->
              LET w == Window(idx[ax], Len(GaussWeights), e.shape[ax])
              IN  TruncDiv(SumSeq([k \in 1..Len(GaussWeights) |->
                               GaussWeights[k] * At(e, [idx EXCEPT ![ax] = w[k]])]),
                           SumSeq(GaussWeights))])

RECURSIVE GaussFrom(_, _)
GaussFrom(e, ax) ==
    IF ax > Len(e.shape) THEN e ELSE GaussFrom(Gauss1D(e, ax), ax + 1)

\* scipy.ndimage.gaussian_filter(x, sigma, order = 0): axes with sigma 0 are
\* skipped, so sigma = 0 copies the input
ndimage_gaussian_filter(e, sigma) == IF sigma = 0 THEN e ELSE GaussFrom(e, 1)

\* the plane im[:, :, z] of a 3-d element
Plane(e, z) ==
    Build(<<e.shape[1], e.shape[2]>>,
          [idx \in Indices(<<e.shape[1], e.shape[2]>>) |-> At(e, idx \o <<z>>)])

CallFilter(func, e, sizes) ==
    IF func = "median" THEN ndimage_median_filter(e, sizes)
    ELSE ndimage_uniform_filter(e, sizes)

\* numpy.corrcoef(x, y)[0, 1] as the exact pair (num, den2): the coefficient
\* is num / sqrt(den2), and nan when den2 = 0
corrcoef(x, y) ==
    LET n   == Len(x)
        sx  == SumSeq(x)
        sy  == SumSeq(y)
        sxy == SumSeq([k \in 1..n |-> x[k] * y[k]])
        sxx == SumSeq([k \in 1..n |-> x[k] * x[k]])
        syy == SumSeq([k \in 1..n |-> y[k] * y[k]])
    IN  [num  |-> n * sxy - sx * sy,
         den2 |-> (n * sxx - sx * sx) * (n * syy - sy * sy)]

---------------------------------------------------------------------------
(* The base class Data, the readers and the sibling types, as far as       *)
(* Images uses them.  An Images object is [mode, values]; an operation     *)
(* returns an outcome record: the error raised, the type, mode and values  *)
(* of the returned object, whether it shares the receiver's storage, the   *)
(* backend operations invoked, the per-element shape declared to the       *)
(* backend, and the receiver's storage afterwards.                         *)

NoDims == [given |-> FALSE, dims |-> <<>>]
Dims(d) == [given |-> TRUE, dims |-> d]

NoLc == [nimages |-> 0, window |-> 0, blurred |-> Nil, combined |-> Nil,
         series |-> Nil, corr |-> <<>>]

\* Data.__init__: the mode of a collection is that of its backing store
DataInit(values, mode) ==
    [mode   |-> IF values.kind = "bolt" THEN "spark"
                ELSE IF values.kind = "ndarray" THEN "local" ELSE mode,
     values |-> values]

\* Images.__init__(values, mode='local') and Images._constructor
Images(values, mode) == DataInit(values, mode)

dims(self) == Tail(self.values.shape)

\* Images.count
count(self) ==
    IF self.mode = "local" THEN Head(self.values.shape)
    ELSE Head(self.values.shape)         \* tordd().count()

OutBase(self) ==
    [err |-> "none", type |-> "none", mode |-> "none", values |-> Nil,
     alias |-> FALSE, transposed |-> FALSE, calls |-> <<>>,
     declared |-> NoDims, warned |-> FALSE, selfAfter |-> self.values,
     draws |-> 0, lc |-> NoLc]

Raise(self, e) == [OutBase(self) EXCEPT !.err = e]

\* a fresh Images over values, built by self._constructor(values)
Wrap(self, values, backend) ==
    [OutBase(self) EXCEPT !.type = "Images",
                          !.mode = Images(values, "local").mode,
                          !.values = values,
                          !.calls = backend]

\* the images of a collection, the arguments a mapped function is called on
Records(self) == {Elems(self.values)[i] : i \in 1..self.values.shape[1]}

\* Data._map(func, axis=0, value_shape): func on every image, restacked
\* on the receiver's backend; the result keeps the receiver's mode
DataMap(self, func, value_shape) ==
    LET es     == Elems(self.values)
        mapped == [i \in 1..Len(es) |-> func[es[i]]]
        values == Stack(self.values.kind, mapped, mapped[1].shape)
    IN  [OutBase(self) EXCEPT !.type = "Images",
                              !.mode = Images(values, self.mode).mode,
                              !.values = values,
                              !.calls = <<"map">>,
                              !.declared = value_shape]

\* Data._filter(func, axis=0): the images on which func holds, in order
RECURSIVE Keep(_, _, _)
Keep(es, func, i) ==
    IF i > Len(es) THEN <<>>
    ELSE (IF func[es[i]] THEN <<es[i]>> ELSE <<>>) \o Keep(es, func, i + 1)

DataFilter(self, func) ==
    LET values == Stack(self.values.kind, Keep(Elems(self.values), func, 1), dims(self))
    IN  [OutBase(self) EXCEPT !.type = "Images",
                              !.mode = Images(values, self.mode).mode,
                              !.values = values,
                              !.calls = <<"filter">>]

\* Data.toarray: the values as one local ndarray
toarray(values) == [values EXCEPT !.kind = "ndarray"]

\* readers.fromarray(values, engine): local without an engine, else bolt
fromarray(values, engine) ==
    Images([values EXCEPT !.kind = IF engine THEN "bolt" ELSE "ndarray"], "local")

\* readers.fromrdd(rdd): a spark collection over the records
fromrdd(values) == Images([values EXCEPT !.kind = "bolt"], "spark")

---------------------------------------------------------------------------
(* Random sampling *)

\* numpy's process-wide generator, and the generator takeSample seeds
RngNext(s) == (s + 1) % RngMod

RECURSIVE Advance(_, _)
Advance(s, k) == IF k = 0 THEN s ELSE Advance(RngNext(s), k - 1)

\* [int(k) for k in random.rand(nsamples) * n]
RECURSIVE RandInds(_, _, _)
RandInds(s, k, n) ==
    IF k = 0 THEN <<>>
    ELSE <<(RngNext(s) * n) \div RngMod>> \o RandInds(RngNext(s), k - 1, n)

RECURSIVE TakeDistinct(_, _, _)
TakeDistinct(rem, s, k) ==
    IF k = 0 \/ rem = <<>> THEN <<>>
    ELSE LET s1 == RngNext(s)
             j  == (s1 * Len(rem)) \div RngMod + 1
         IN  <<rem[j]>> \o TakeDistinct(DelAt(rem, j), s1, k - 1)

\* RDD.takeSample(withReplacement, num, seed): num records drawn with the
\* generator seeded by seed; without replacement no record is drawn twice
\* and at most all of them are returned
takeSample(es, withReplacement, num, seed) ==
    IF withReplacement
    THEN LET inds == RandInds(seed % RngMod, num, Len(es))
         IN  [k \in 1..num |-> es[inds[k] + 1]]
    ELSE TakeDistinct(es, seed % RngMod, num)

NoSeed == [given |-> FALSE, v |-> 0]

\* Images.sample(nsamples, seed); rng is the state of numpy's generator
sample(self, nsamples, seed, rng) ==
    IF nsamples < 1 THEN Raise(self, "ValueError")
    ELSE
    LET fresh == IF seed.given THEN 0 ELSE 1      \* random.randint(0, 2 ** 32)
        seed1 == IF seed.given THEN seed.v ELSE RngNext(rng)
        rng1  == Advance(rng, fresh)
        es    == Elems(self.values)
    IN  IF self.mode = "spark"
        THEN LET result == Stack("ndarray", takeSample(es, FALSE, nsamples, seed1),
                                 dims(self))
             IN  [Wrap(self, result, <<"tordd", "values", "takeSample">>)
                     EXCEPT !.draws = fresh]
        ELSE LET inds   == RandInds(rng1, nsamples, Head(self.values.shape))
                 result == Stack("ndarray", [k \in 1..nsamples |-> es[inds[k] + 1]],
                                 dims(self))
             IN  [Wrap(self, result, <<>>) EXCEPT !.draws = fresh + nsamples]

---------------------------------------------------------------------------
(* Images: transformations *)

\* Images.map(func, dims)
map(self, func, value_shape) == DataMap(self, func, value_shape)

\* Images.filter(func)
filter(self, func) == DataFilter(self, func)

\* the values at one position of every image, the arguments of an aggregate
Columns(values) ==
    {[i \in 1..values.shape[1] |-> Elems(values)[i].data[p]] :
        p \in 1..Prod(Tail(values.shape))}

\* faulty variant: the aggregate without keepdims
AxisAggNoKeepdims(values, agg) ==
    LET es == Elems(values)
    IN  [kind  |-> values.kind,
         shape |-> Tail(values.shape),
         data  |-> [p \in 1..Prod(Tail(values.shape)) |->
                       agg[[i \in 1..Len(es) |-> es[i].data[p]]]]]

\* values.<agg>(axis=0, keepdims=True)
AxisAgg(values, agg) ==
    LET es == Elems(values)
    IN  [kind  |-> values.kind,
         shape |-> <<1>> \o Tail(values.shape),
         data  |-> [p \in 1..Prod(Tail(values.shape)) |->
                       agg[[i \in 1..Len(es) |-> es[i].data[p]]]]]

NpMean(x) == TruncDiv(SumSeq(x), Len(x))
NpVar(x) ==
    TruncDiv(Len(x) * SumSeq([k \in 1..Len(x) |-> x[k] * x[k]]) - SumSeq(x) * SumSeq(x),
             Len(x) * Len(x))
NpStd(x) ==
    Isqrt((Len(x) * SumSeq([k \in 1..Len(x) |-> x[k] * x[k]]) - SumSeq(x) * SumSeq(x))
          \div (Len(x) * Len(x)))

mean(self) ==
    Wrap(self, AxisAgg(self.values, [x \in Columns(self.values) |-> NpMean(x)]), <<"mean">>)
var(self) ==
    Wrap(self, AxisAgg(self.values, [x \in Columns(self.values) |-> NpVar(x)]), <<"var">>)
std(self) ==
    Wrap(self, AxisAgg(self.values, [x \in Columns(self.values) |-> NpStd(x)]), <<"std">>)
sum(self) ==
    Wrap(self, AxisAgg(self.values, [x \in Columns(self.values) |-> SumSeq(x)]), <<"sum">>)
max(self) ==
    Wrap(self, AxisAgg(self.values, [x \in Columns(self.values) |-> MaxSeq(x)]), <<"max">>)
min(self) ==
    Wrap(self, AxisAgg(self.values, [x \in Columns(self.values) |-> MinSeq(x)]), <<"min">>)

\* faulty variant: squeeze leaves a shape that is not wholly degenerate alone
SqueezeAxisKeepsUnits(shape) ==
    IF Prod(Tail(shape)) = 1
    THEN [none |-> FALSE, axes |-> 1..(Len(shape) - 2)]
    ELSE [none |-> FALSE, axes |-> {}]

\* faulty variant: squeeze of a wholly degenerate shape drops axis 1 only
SqueezeAxisFirstOnly(shape) ==
    IF Prod(Tail(shape)) = 1
    THEN [none |-> FALSE, axes |-> {1}]
    ELSE [none |-> TRUE, axes |-> {}]

\* the axis argument squeeze passes to ndarray.squeeze
SqueezeAxis(shape) ==
    IF Prod(Tail(shape)) = 1
    THEN [none |-> FALSE, axes |-> 1..(Len(shape) - 2)]
    ELSE [none |-> TRUE, axes |-> {}]

\* Images.squeeze
squeeze(self) ==
    LET axis == SqueezeAxis(self.values.shape)
    IN  map(self, [x \in Records(self) |-> NpSqueeze(x, axis)], NoDims)

\* Images.max_projection(axis)
max_projection(self, axis) ==
    IF axis >= Len(dims(self)) THEN Raise(self, "Exception")
    ELSE LET newdims == DelAt(dims(self), axis + 1)
         IN  map(self, [x \in Records(self) |-> amax(x, axis)], Dims(newdims))

\* Images.max_min_projection(axis)
max_min_projection(self, axis) ==
    IF axis >= Len(dims(self)) THEN Raise(self, "Exception")
    ELSE LET newdims == DelAt(dims(self), axis + 1)
         IN  map(self,
                 [x \in Records(self) |->
                     [shape |-> amax(x, axis).shape,
                      data  |-> [k \in DOMAIN amax(x, axis).data |->
                                    amax(x, axis).data[k] + amin(x, axis).data[k]]]],
                 Dims(newdims))

\* faulty variant: floor division in place of ceiling division
rounddown(a, b) == a \div b

roundup(a, b) == (a + b - 1) \div b

\* Images.subsample(factor); factor is [scalar, v]
subsample(self, factor) ==
    LET ndims == Len(dims(self))
        f     == IF factor.scalar THEN [i \in 1..ndims |-> factor.v[1]] ELSE factor.v
    IN  IF \E i \in 1..ndims : f[i] <= 0 THEN Raise(self, "ValueError")
        ELSE LET newdims == [i \in 1..ndims |-> roundup(dims(self)[i], f[i])]
             IN  map(self, [v \in Records(self) |-> Strided(v, f)], Dims(newdims))

\* Images.gaussian_filter(sigma, order = 0)
gaussian_filter(self, sigma) ==
    map(self, [v \in Records(self) |-> ndimage_gaussian_filter(v, sigma)],
        Dims(dims(self)))

\* Images._image_filter(filter, size); func is FILTERS[filter], size is
\* [scalar, v].  In spark mode
\* the plane-by-plane branch writes into the record it was handed: shared
\* says whether the engine handed out the stored record or a copy of it
_image_filter(self, func, size, shared) ==
    LET ndims   == Len(dims(self))
        size1   == IF ndims = 3 /\ size.scalar
                   THEN [scalar |-> FALSE, v |-> <<size.v[1], size.v[1], size.v[1]>>]
                   ELSE size
        sizes   == IF size1.scalar THEN [i \in 1..ndims |-> size1.v[1]] ELSE size1.v
        planes  == ndims = 3 /\ size1.v[3] = 0
        filter_ ==
            [im \in Records(self) |->
                IF planes
                THEN Build(im.shape,
                           [idx \in Indices(im.shape) |->
                               At(CallFilter(func, Plane(im, idx[3]),
                                             SubSeq(size1.v, 1, 2)),
                                  <<idx[1], idx[2]>>)])
                ELSE CallFilter(func, im, sizes)]
        out     == map(self, filter_, Dims(dims(self)))
    IN  IF planes /\ self.mode = "spark" /\ shared
        THEN [out EXCEPT !.selfAfter = [self.values EXCEPT !.data = out.values.data]]
        ELSE out

\* Images.uniform_filter(size) and Images.median_filter(size)
uniform_filter(self, size, shared) == _image_filter(self, "uniform", size, shared)
median_filter(self, size, shared) == _image_filter(self, "median", size, shared)

\* faulty variant: the operand's shape is not checked, so a mismatch surfaces in
\* the mapped function
subtractUnchecked(self, val) ==
    IF val.isarray /\ val.shape # Tail(self.values.shape)
    THEN [Raise(self, "ValueError") EXCEPT !.calls = <<"map">>]
    ELSE DataMap(self,
                 [x \in Records(self) |->
                     [shape |-> x.shape,
                      data  |-> [k \in DOMAIN x.data |->
                                    x.data[k] - (IF val.isarray THEN val.data[k]
                                                 ELSE val.data[1])]]],
                 Dims(Tail(self.values.shape)))

\* Images.subtract(val); val is [isarray, shape, data]
subtract(self, val) ==
    IF val.isarray /\ val.shape # dims(self) THEN Raise(self, "Exception")
    ELSE map(self,
             [x \in Records(self) |->
                 [shape |-> x.shape,
                  data  |-> [k \in DOMAIN x.data |->
                                x.data[k] - (IF val.isarray THEN val.data[k]
                                             ELSE val.data[1])]]],
             Dims(dims(self)))

---------------------------------------------------------------------------
(* Images: conversions *)

\* Images.toblocks(size)
toblocks(self, size) ==
    IF self.mode = "spark"
    THEN [OutBase(self) EXCEPT !.type = "Blocks", !.mode = "spark",
                               !.values = self.values,
                               !.calls = <<"chunk", "keys_to_values">>]
    ELSE [OutBase(self) EXCEPT !.type = "Blocks", !.mode = "local",
                               !.values = self.values,
                               !.alias = TRUE,           \* blocks = self.values
                               !.warned = (size # "150")]

\* Images.toseries(size)
toseries(self) ==
    IF self.mode = "spark"
    THEN [OutBase(self) EXCEPT !.type = "Series", !.mode = "spark",
                               !.values = Transpose(self.values),
                               !.calls = <<"swap">>]
    ELSE [OutBase(self) EXCEPT !.type = "Series", !.mode = "local",
                               !.values = Transpose(self.values),
                               !.alias = TRUE,           \* transpose is a view
                               !.transposed = TRUE,
                               !.calls = <<"transpose">>]

\* Images.tolocal; same says whether toarray and fromarray hand back the
\* receiver's own ndarray
tolocal(self, same) ==
    LET r == fromarray(toarray(self.values), FALSE)
    IN  [OutBase(self) EXCEPT !.type = "Images", !.mode = r.mode,
                              !.values = r.values,
                              !.alias = (self.mode = "local" /\ same),
                              !.warned = (self.mode = "local"),
                              !.calls = <<"toarray", "fromarray">>]

\* Images.tospark(engine); engine says whether a SparkContext was given
tospark(self, engine) ==
    IF ~engine THEN [Raise(self, "ValueError") EXCEPT !.warned = (self.mode = "spark")]
    ELSE LET r == fromarray(toarray(self.values), TRUE)
         IN  [OutBase(self) EXCEPT !.type = "Images", !.mode = r.mode,
                                   !.values = r.values,
                                   !.warned = (self.mode = "spark"),
                                   !.calls = <<"toarray", "fromarray">>]

\* faulty variant: the blurred images first
CombineBlurredFirst(values, blurred) == Concatenate(blurred, values)

\* the union localcorr builds: the receiver's images, then the blurred ones
Combine(values, blurred) == Concatenate(values, blurred)

\* Images.localcorr(neighborhood); neighborhood is [isint, v]
localcorr(self, neighborhood) ==
    IF ~neighborhood.isint THEN Raise(self, "ValueError")
    ELSE
    LET nimages  == Head(self.values.shape)
        window   == (neighborhood.v * 2) + 1
        b        == uniform_filter(self, [scalar |-> TRUE, v |-> <<window>>], FALSE)
        blurred  == [mode |-> b.mode, values |-> b.values]
        combined == Combine(self.values, blurred.values)
        combinedImages ==
            IF self.mode = "spark" THEN fromrdd(combined)
            ELSE fromarray(combined, FALSE)
        s        == toseries(combinedImages)
        series   == s.values
        T        == Head(combined.shape)
        corr     == [p \in 1..Prod(dims(self)) |->
                        LET x == SubSeq(series.data, (p - 1) * T + 1, p * T)
                        IN  corrcoef(SubSeq(x, 1, nimages),
                                     SubSeq(x, nimages + 1, Len(x)))]
    IN  [OutBase(self) EXCEPT
            !.type = "ndarray", !.mode = "local",
            !.selfAfter = b.selfAfter,
            !.calls = <<"uniform_filter">> \o b.calls \o <<"concatenate">>
                      \o (IF self.mode = "spark" THEN <<"tordd", "fromrdd">>
                          ELSE <<"fromarray">>)
                      \o <<"toseries">> \o s.calls \o <<"map", "toarray">>,
            !.lc = [nimages |-> nimages, window |-> window,
                    blurred |-> blurred.values, combined |-> combinedImages.values,
                    series |-> series, corr |-> corr]]

---------------------------------------------------------------------------
(* The state machine.  heap[1] is the storage of the receiver coll, heap[2]  *)
(* the storage of a result that has its own; res.buf says which of the two *)
(* the last returned object holds (0: none).                               *)

Self == [mode |-> coll.mode, values |-> heap[1]]

NoRes == [type |-> "none", mode |-> "none", buf |-> 0, transposed |-> FALSE]
NoPrev == [valid |-> FALSE, input |-> Nil, arg |-> <<>>, result |-> Nil]

Holds(type) == type \in {"Images", "Blocks", "Series"}

InitDims == UNION {Tuples(n, 1..MaxDim) : n \in 1..MaxNDims}

\* pixel values of an initial collection: all distinct
InitData(n) == [k \in 1..n |-> k - 1]

Init ==
    \E mode \in {"local", "spark"}, d \in InitDims, n \in 1..MaxCount :
        LET values == [kind  |-> IF mode = "spark" THEN "bolt" ELSE "ndarray",
                       shape |-> <<n>> \o d,
                       data  |-> InitData(n * Prod(d))]
        IN  /\ heap = <<values, Nil>>
            /\ coll = [mode |-> Images(values, mode).mode, buf |-> 1]
            /\ orig = values
    /\ res = NoRes
    /\ last = [op |-> "idle", scalar |-> TRUE, arg |-> <<>>]
    /\ err = "none"
    /\ calls = <<>>
    /\ declared = NoDims
    /\ warned = FALSE
    /\ squeezed = FALSE
    /\ nprng \in 0..(RngMod - 1)
    /\ steps = 0
    /\ prevSample = NoPrev
    /\ lc = NoLc

\* the caller holds no returned object: it makes its next call on coll.
\* (No operation reads the returned object of the call before it, so calls
\* are explored from these states, but for a sample call repeated at once.)
Idle == last.op = "idle"

\* the effect of one call on the receiver: out is what the method returned
Apply(op, scalar, arg, returned) ==
    /\ Idle \/ op = "sample again"
    /\ \E out \in {returned} :
         /\ heap' = <<out.selfAfter,
                      IF Holds(out.type) /\ ~out.alias THEN out.values ELSE Nil>>
         /\ res' = [type |-> out.type, mode |-> out.mode,
                    buf  |-> IF ~Holds(out.type) THEN 0
                             ELSE IF out.alias THEN 1 ELSE 2,
                    transposed |-> out.transposed]
         /\ err' = out.err
         /\ calls' = out.calls
         /\ declared' = out.declared
         /\ warned' = out.warned
         /\ nprng' = Advance(nprng, out.draws)
         /\ lc' = out.lc
         \* a call that changed the receiver's storage counts as a step
         /\ out.selfAfter = heap[1] \/ steps < MaxSteps
         /\ steps' = IF out.selfAfter = heap[1] THEN steps ELSE steps + 1
    /\ last' = [op |-> op, scalar |-> scalar, arg |-> arg]
    /\ prevSample' =
          IF op = "sample again"
          THEN [valid |-> TRUE, input |-> heap[1], arg |-> last.arg, result |-> heap[2]]
          ELSE NoPrev
    /\ UNCHANGED <<coll, orig, squeezed>>

---------------------------------------------------------------------------
(* One action per public operation *)

Seeds == {NoSeed} \cup {[given |-> TRUE, v |-> v] : v \in 0..MaxSeed}

Sample ==
    \E nsamples \in 0..MaxSamples, seed \in Seeds :
        Apply("sample", TRUE,
              <<nsamples, IF seed.given THEN 1 ELSE 0, seed.v>>,
              sample(Self, nsamples, seed, nprng))

\* the caller repeats the sample call it has just made, same arguments
SampleAgain ==
    /\ last.op = "sample"
    /\ err = "none"
    /\ Apply("sample again", TRUE, last.arg,
             sample(Self, last.arg[1],
                    [given |-> last.arg[2] = 1, v |-> last.arg[3]], nprng))

\* the functions a caller maps: negate every value, or flatten the image
UserFunc(name, x) ==
    IF name = "negate"
    THEN [shape |-> x.shape, data |-> [k \in DOMAIN x.data |-> -x.data[k]]]
    ELSE [shape |-> <<Len(x.data)>>, data |-> x.data]

Map ==
    \E name \in {"negate", "ravel"} :
        Apply("map", TRUE, <<>>, map(Self, [x \in Records(Self) |-> UserFunc(name, x)], NoDims))

\* the predicates a caller filters by: the parity of the first value
Filter ==
    \E parity \in {0, 1} :
        Apply("filter", TRUE, <<parity>>,
              filter(Self, [x \in Records(Self) |-> x.data[1] % 2 = parity]))

Mean == Apply("mean", TRUE, <<>>, mean(Self))
Var  == Apply("var", TRUE, <<>>, var(Self))
Std  == Apply("std", TRUE, <<>>, std(Self))
Sum  == Apply("sum", TRUE, <<>>, sum(Self))
Max  == Apply("max", TRUE, <<>>, max(Self))
Min  == Apply("min", TRUE, <<>>, min(Self))

Squeeze == Apply("squeeze", TRUE, <<>>, squeeze(Self))

MaxProjection ==
    \E axis \in 0..MaxNDims :
        Apply("max_projection", TRUE, <<axis>>, max_projection(Self, axis))

MaxMinProjection ==
    \E axis \in 0..MaxNDims :
        Apply("max_min_projection", TRUE, <<axis>>, max_min_projection(Self, axis))

Factors(ndims) ==
    {[scalar |-> TRUE, v |-> <<f>>] : f \in 0..MaxFactor}
    \cup {[scalar |-> FALSE, v |-> t] : t \in Tuples(ndims, 0..MaxFactor)}

Subsample ==
    \E factor \in Factors(Len(dims(Self))) :
        Apply("subsample", factor.scalar, factor.v, subsample(Self, factor))

GaussianFilter ==
    \E sigma \in {0, 1} :
        Apply("gaussian_filter", TRUE, <<sigma>>, gaussian_filter(Self, sigma))

\* window sizes: one integer, or one per axis; the third of a volume may be 0
Sizes(ndims) ==
    {[scalar |-> TRUE, v |-> <<w>>] : w \in 1..MaxFilterSize}
    \cup {[scalar |-> FALSE, v |-> t] : t \in Tuples(ndims, 1..MaxFilterSize)}
    \cup (IF ndims = 3
          THEN {[scalar |-> FALSE, v |-> t \o <<0>>] : t \in Tuples(2, 1..MaxFilterSize)}
          ELSE {})

\* whether the engine hands the stored record to the mapped function is
\* observable only where the function writes into it
Engines(size) ==
    IF coll.mode = "spark" /\ Len(size.v) = 3 /\ size.v[Len(size.v)] = 0
    THEN BOOLEAN ELSE {FALSE}

UniformFilter ==
    \E size \in Sizes(Len(dims(Self))) : \E shared \in Engines(size) :
        Apply("uniform_filter", size.scalar, size.v, uniform_filter(Self, size, shared))

MedianFilter ==
    \E size \in Sizes(Len(dims(Self))) : \E shared \in Engines(size) :
        Apply("median_filter", size.scalar, size.v, median_filter(Self, size, shared))

Localcorr ==
    \E neighborhood \in {[isint |-> TRUE, v |-> v] : v \in 0..MaxNeighborhood}
                        \cup {[isint |-> FALSE, v |-> 0]} :
        Apply("localcorr", neighborhood.isint, <<neighborhood.v>>,
              localcorr(Self, neighborhood))

\* operands: a number, an image of the receiver's dims, an image of other dims
Operands(d) ==
    {[isarray |-> FALSE, shape |-> <<>>, data |-> <<1>>],
     [isarray |-> TRUE, shape |-> d, data |-> [k \in 1..Prod(d) |-> 1]],
     [isarray |-> TRUE, shape |-> d \o <<1>>, data |-> [k \in 1..Prod(d) |-> 1]]}

Subtract ==
    \E val \in Operands(dims(Self)) :
        Apply("subtract", ~val.isarray, val.shape, subtract(Self, val))

ToBlocks ==
    \E size \in {"150", "64"} :
        Apply("toblocks", TRUE, <<>>, toblocks(Self, size))

ToSeries == Apply("toseries", TRUE, <<>>, toseries(Self))

ToLocal ==
    \E same \in BOOLEAN : Apply("tolocal", TRUE, <<>>, tolocal(Self, same))

ToSpark ==
    \E engine \in BOOLEAN :
        Apply("tospark", engine, <<>>, tospark(Self, engine))

\* the caller goes on with the returned collection
Adopt ==
    /\ res.type = "Images"
    /\ steps < MaxSteps
    /\ Head(heap[res.buf].shape) >= 1
    /\ heap' = <<heap[res.buf], Nil>>
    /\ coll' = [mode |-> res.mode, buf |-> 1]
    /\ orig' = heap[res.buf]
    /\ squeezed' = (last.op = "squeeze")
    /\ res' = NoRes
    /\ last' = [op |-> "idle", scalar |-> TRUE, arg |-> <<>>]
    /\ err' = "none"
    /\ calls' = <<>>
    /\ declared' = NoDims
    /\ warned' = FALSE
    /\ steps' = steps + 1
    /\ prevSample' = NoPrev
    /\ lc' = NoLc
    /\ UNCHANGED nprng

\* the caller drops what the last call returned
Return ==
    /\ ~Idle
    /\ heap' = [heap EXCEPT ![2] = Nil]
    /\ res' = NoRes
    /\ last' = [op |-> "idle", scalar |-> TRUE, arg |-> <<>>]
    /\ err' = "none"
    /\ calls' = <<>>
    /\ declared' = NoDims
    /\ warned' = FALSE
    /\ prevSample' = NoPrev
    /\ lc' = NoLc
    /\ UNCHANGED <<coll, orig, squeezed, nprng, steps>>

\* the caller writes a value into the returned object's ndarray
WriteThrough ==
    /\ Holds(res.type)
    /\ steps < MaxSteps
    /\ heap[res.buf].kind = "ndarray"
    /\ heap[res.buf].data # <<>>
    /\ heap' = [heap EXCEPT ![res.buf].data[1] = @ + 1]
    /\ last' = [op |-> "write", scalar |-> TRUE, arg |-> <<>>]
    /\ steps' = steps + 1
    /\ prevSample' = NoPrev
    /\ UNCHANGED <<coll, res, err, calls, declared, warned, orig, squeezed,
                   nprng, lc>>

Next ==
    \/ ToBlocks \/ ToSeries \/ ToLocal \/ ToSpark
    \/ Sample \/ SampleAgain \/ Map \/ Filter
    \/ Mean \/ Var \/ Std \/ Sum \/ Max \/ Min
    \/ Squeeze \/ MaxProjection \/ MaxMinProjection \/ Subsample
    \/ GaussianFilter \/ UniformFilter \/ MedianFilter
    \/ Localcorr \/ Subtract
    \/ Adopt \/ Return \/ WriteThrough

Spec == Init /\ [][Next]_vars

---------------------------------------------------------------------------
(* Properties *)

\* the object the last call returned, as the caller sees it
ResValues == IF res.transposed THEN Transpose(heap[res.buf]) ELSE heap[res.buf]
ResObj == [mode |-> res.mode, values |-> ResValues]

Returned(ops) == last.op \in ops /\ err = "none"

\* C1: a returned collection has the mode of the collection it was derived
\* from unless the deriving operation was tolocal or tospark.
C1_NoImplicitModeChange ==
    (res.type = "Images" /\ last.op \notin {"tolocal", "tospark"})
        => res.mode = coll.mode

\* C2: sample(nsamples, seed) with nsamples >= 1 returns exactly nsamples
\* elements, each of them an element of the receiver, in either mode (so
\* nsamples may exceed count()).
C2_SampleWithReplacement ==
    Returned({"sample", "sample again"})
        => /\ count(ResObj) = last.arg[1]
           /\ \A k \in 1..count(ResObj) :
                 \E i \in 1..count(Self) : Elems(ResValues)[k] = Elems(heap[1])[i]

\* C3: two sample calls on the same collection with the same nsamples and
\* the same explicitly supplied seed return identical elements in identical
\* order.
C3_SampleDeterministic ==
    (Returned({"sample again"}) /\ prevSample.valid /\ last.arg[2] = 1
        /\ prevSample.arg = last.arg /\ prevSample.input = heap[1])
        => ResValues = prevSample.result

\* the dims with every size-1 axis removed
NoOnes(d) == SelectSeq(d, LAMBDA x : x # 1)

\* C4 as claimed: on a collection whose product of dims is not 1, squeeze()
\* returns the same count, the same dims and the same values.
C4_SqueezeNoOp ==
    (Returned({"squeeze"}) /\ Prod(dims(Self)) # 1)
        => /\ count(ResObj) = count(Self)
           /\ dims(ResObj) = dims(Self)
           /\ ResValues.data = heap[1].data

\* C4 as amended: on a collection whose product of dims is not 1, squeeze()
\* returns the same count and the same values in the same order, with every
\* size-1 axis removed from the dims.
C4_SqueezeDropsUnitAxes ==
    (last.op = "squeeze" /\ Prod(dims(Self)) # 1)
        => /\ err = "none"
           /\ res.type = "Images"
           /\ count(ResObj) = count(Self)
           /\ dims(ResObj) = NoOnes(dims(Self))
           /\ ResValues.data = heap[1].data

C4_Witness ==
    /\ Returned({"squeeze"})
    /\ dims(Self) = <<2, 1, 2>>
    /\ dims(ResObj) = <<2, 2>>
    /\ count(ResObj) = 2

\* C5: squeeze leaves the count unchanged, and applied to the result of a
\* squeeze it leaves the dims unchanged.
C5_SqueezeIdempotent ==
    last.op = "squeeze"
        => /\ err = "none"
           /\ res.type = "Images"
           /\ count(ResObj) = count(Self)
           /\ squeezed => dims(ResObj) = dims(Self)

C5_Witness ==
    /\ Returned({"squeeze"})
    /\ squeezed
    /\ dims(Self) = <<1>>
    /\ dims(ResObj) = <<1>>
    /\ count(Self) = 2

\* the least n with n * b >= a
CeilDiv(a, b) == CHOOSE n \in 0..a : n * b >= a /\ (n - 1) * b < a

\* the per-axis factor of a call l on a receiver of ndims axes
FactorOf(l, ndims) == IF l.scalar THEN [i \in 1..ndims |-> l.arg[1]] ELSE l.arg

\* C6: subsample(factor) with every factor positive declares, on every axis,
\* ceil(dims / factor), which is the number of indices 0, f, 2f, ... below
\* dims that the result actually holds; the values are those at the strided
\* indices; one integer applies to every axis; all-ones changes nothing; the
\* count is unchanged.
C6_SubsampleDims ==
    LET d == dims(Self)
        f == FactorOf(last, Len(d))
        es == Elems(heap[1])
    IN  (last.op = "subsample" /\ \A i \in 1..Len(d) : f[i] > 0)
        => /\ err = "none"
           /\ res.type = "Images"
           /\ declared.given
           /\ Len(declared.dims) = Len(d)
           /\ Len(dims(ResObj)) = Len(d)
           /\ \A i \in 1..Len(d) :
                 /\ declared.dims[i] = CeilDiv(d[i], f[i])
                 /\ declared.dims[i] = dims(ResObj)[i]
                 /\ declared.dims[i] =
                       Cardinality({j * f[i] : j \in 0..d[i]} \cap 0..(d[i] - 1))
           /\ count(ResObj) = count(Self)
           /\ \A k \in 1..count(Self) :
                 Elems(ResValues)[k] =
                    Build(declared.dims,
                          [idx \in Indices(declared.dims) |->
                              At(es[k], [i \in 1..Len(d) |-> idx[i] * f[i]])])
           /\ (\A i \in 1..Len(d) : f[i] = 1)
                 => (dims(ResObj) = d /\ ResValues.data = heap[1].data)

C6_Witness ==
    /\ Returned({"subsample"})
    /\ ~last.scalar
    /\ dims(Self) = <<2, 2>>
    /\ last.arg = <<3, 1>>
    /\ declared.dims = <<1, 2>>
    /\ dims(ResObj) = <<1, 2>>
    /\ count(ResObj) = 2

\* whether the call l on the receiver self is one of the invalid calls
Invalid(l, self) ==
    \/ /\ l.op = "subsample"
       /\ \E i \in 1..Len(dims(self)) : FactorOf(l, Len(dims(self)))[i] <= 0
    \/ l.op = "localcorr" /\ ~l.scalar
    \/ l.op = "sample" /\ l.arg[1] < 1
    \/ l.op = "subtract" /\ ~l.scalar /\ l.arg # dims(self)
    \/ l.op \in {"max_projection", "max_min_projection"} /\ l.arg[1] >= Len(dims(self))
    \/ l.op = "tospark" /\ ~l.scalar

ExpectedError(op) ==
    IF op \in {"subtract", "max_projection", "max_min_projection"}
    THEN "Exception" ELSE "ValueError"

\* C7: an invalid call (non-positive subsample factor, non-integer
\* neighborhood, nsamples < 1, subtract operand of another shape, projection
\* axis >= number of dims, tospark without an engine) raises its error, the
\* same in both modes, before any backend operation is invoked, returns
\* nothing and leaves the receiver as it was.
C7_EagerValidation ==
    [][Invalid(last', Self)
          => /\ err' = ExpectedError(last'.op)
             /\ calls' = <<>>
             /\ res' = NoRes
             /\ heap' = <<heap[1], Nil>>
             /\ coll' = coll]_vars

C7_Witness ==
    /\ last.op = "subtract"
    /\ Invalid(last, Self)
    /\ coll.mode = "spark"
    /\ err = "Exception"
    /\ calls = <<>>

Aggregates == {"mean", "var", "std", "sum", "max", "min"}

\* C8: each axis-0 aggregate of a non-empty collection returns a collection
\* of exactly one element whose dims are the receiver's dims, in both modes.
C8_AggregateShape ==
    last.op \in Aggregates
        => /\ err = "none"
           /\ res.type = "Images"
           /\ ResValues.shape = <<1>> \o dims(Self)
           /\ Len(ResValues.data) = Prod(dims(Self))

C8_Witness ==
    /\ Returned({"var"})
    /\ coll.mode = "spark"
    /\ count(Self) = 2
    /\ dims(Self) = <<2, 2>>
    /\ count(ResObj) = 1
    /\ dims(ResObj) = <<2, 2>>

\* C9: the values of a collection stay what they were whatever is called on
\* it, and no returned object shares its storage.
C9_NoMutationNoAlias == heap[1] = orig /\ res.buf # 1

====
